---- MODULE Spec2Model ----
(***************************************************************************)
(* The PyKids Robots game server (src/robots/server.py): the registry of   *)
(* players, the phase machine registration -> game -> results, the world   *)
(* simulation (generate_world, update_world) and the dispatch loop of      *)
(* Server.run.                                                              *)
(*                                                                         *)
(* Time.  The code reads the wall clock (time.time()) and compares it with *)
(* self.since plus 10.0, 1.0 or 3.0.  The model keeps the difference       *)
(* time.time() - self.since, in whole seconds, in the variable elapsed,    *)
(* saturated at Horizon (the largest of the three delays): nothing in the  *)
(* code distinguishes two larger differences.  "self.since = time.time()"  *)
(* is elapsed' = 0 and "self.since = 0" is elapsed' = Horizon (the clock   *)
(* is the Unix epoch time, far beyond any of the delays).                  *)
(*                                                                         *)
(* Faults.  An uncaught Python exception ends Server.run; fault names the  *)
(* exception and no action is enabled afterwards.                          *)
(***************************************************************************)
EXTENDS Integers, Sequences, FiniteSets, TLC

VARIABLES
    phase,      \* self.phase
    players,    \* self.players: identity -> [nick, will]
    elapsed,    \* time.time() - self.since, saturated at Horizon
    hasWorld,   \* the attributes world, actions and turn exist (set by _begin_game)
    turn,       \* self.turn
    actions,    \* self.actions: identity -> [target]
    world,      \* self.world: [arena, robots, wrecks], each identity -> robot
    pc,         \* position in the loop of run: "tick" or "receive"
    fault,      \* "none", or the exception that ended run
    sent        \* what the last step sent: [type, to, players, world, turn]

vars == <<phase, players, elapsed, hasWorld, turn, actions, world, pc, fault, sent>>

\* The attributes of the server object; pc and sent are the loop's position
\* and its output.
server == <<phase, players, elapsed, hasWorld, turn, actions, world, fault>>

----------------------------------------------------------------------------
\* Bounds of the model.

\* The arena of the model; the source's is 1600 x 900 and yields 92 slots.
ArenaWidth == 150
ArenaHeight == 150
\* Robots start with 100 hit points in the source; the model's robots start
\* with fewer so that a game ends within MaxTurn turns.
StartHp == 20
\* Turns of one game the model follows.
MaxTurn == 4
\* How many outcomes of random.sample the model follows per game.
MaxSamples == 2

----------------------------------------------------------------------------
\* Program constants.

RegistrationWait == 10
TurnTime == 1
ResultsTime == 3
MinPlayers == 2
NickMax == 32
Damage == 10
GridStep == 50
GridInset == 25

Horizon == RegistrationWait

None == "None"

\* Identities of the clients that talk to the server.
Identities == {"a", "b", "c"}
\* The clients of the crowded lobby: more of them than starting slots.
Crowd == Identities \cup {"d", "e"}

EmptyDict == <<>>

\* dict.get(key, default)
DictGet(d, key, default) == IF key \in DOMAIN d THEN d[key] ELSE default

\* d[key] = value
DictPut(d, key, value) ==
    [k \in DOMAIN d \cup {key} |-> IF k = key THEN value ELSE d[k]]

\* All orders in which the keys S of a dict can be iterated.
Orders(S) ==
    {f \in [1..Cardinality(S) -> S] : \A x \in S : \E i \in DOMAIN f : f[i] = x}

Min(a, b) == IF a < b THEN a ELSE b

\* starts, in the order the two loops append them.
RECURSIVE XStarts(_)
XStarts(x) ==
    IF x >= ArenaWidth - GridStep THEN <<>>
    ELSE <<<<x + GridInset, GridInset>>, <<x + GridInset, ArenaHeight - GridInset>>>>
         \o XStarts(x + GridStep)

RECURSIVE YStarts(_)
YStarts(y) ==
    IF y >= ArenaHeight - GridStep THEN <<>>
    ELSE <<<<GridInset, y + GridInset>>, <<ArenaWidth - GridInset, y + GridInset>>>>
         \o YStarts(y + GridStep)

starts == XStarts(GridStep) \o YStarts(GridStep)

\* self.active_players
ActivePlayers(ps) == {n \in DOMAIN ps : ps[n].will = "play"}

active_players == ActivePlayers(players)

----------------------------------------------------------------------------
\* Messages the server sends.

Arena == [width |-> ArenaWidth, height |-> ArenaHeight]

NoWorld == [arena |-> Arena, robots |-> EmptyDict, wrecks |-> EmptyDict]

NoMessage ==
    [type |-> "none", to |-> {}, players |-> EmptyDict, world |-> NoWorld, turn |-> 0]

\* _send_all: one message to every key of self.players
SendAll(ps, type, w, t) ==
    [type |-> type, to |-> DOMAIN ps,
     players |-> IF type = "roster" THEN ps ELSE EmptyDict,
     world |-> w, turn |-> t]

----------------------------------------------------------------------------
\* The world.

Point(p) == [x |-> p[1], y |-> p[2]]

\* A draw with replacement: the same point for every player.
SampleWithReplacement(n) ==
    IF n > Len(starts) THEN {}
    ELSE {[i \in 1..n |-> starts[k + 1]] : k \in 0..(Min(MaxSamples, Len(starts)) - 1)}

\* The outcomes of random.sample(starts, n) the model follows: n successive
\* entries of starts (cyclically) from one of the first MaxSamples offsets.
\* The call raises ValueError when n > len(starts): no outcome.
Sample(n) ==
    IF n > Len(starts) THEN {}
    ELSE {[i \in 1..n |-> starts[((k + i - 1) % Len(starts)) + 1]] :
            k \in 0..(Min(MaxSamples, Len(starts)) - 1)}

NewRobot(p) ==
    [move_from |-> Point(p), move_to |-> Point(p),
     damage |-> Damage, target |-> None, hp |-> StartHp]

\* generate_world(players): the worlds it can return.  positions.pop() takes
\* the sampled points from the end, one per player in the dict's order.
\* The model follows one order of the dict.
generate_world(ps) ==
    LET n == Cardinality(ps)
        order == CHOOSE o \in Orders(ps) : TRUE
        Popped(name) == n + 1 - (CHOOSE i \in 1..n : order[i] = name)
    IN {[arena |-> Arena,
         robots |-> [name \in ps |-> NewRobot(positions[Popped(name)])],
         wrecks |-> EmptyDict] : positions \in Sample(n)}

\* A first loop in which a robot already without hit points does not fire.
RECURSIVE DamageLoopOfTheLiving(_, _, _)
DamageLoopOfTheLiving(robots, order, i) ==
    IF i > Len(order) THEN robots
    ELSE LET name == order[i]
             moved == [robots EXCEPT ![name].move_from = robots[name].move_to]
             target == moved[name].target
             hit == IF target \in DOMAIN moved /\ moved[name].hp > 0
                    THEN [moved EXCEPT ![target].hp = @ - moved[name].damage]
                    ELSE moved
         IN DamageLoopOfTheLiving([hit EXCEPT ![name].target = None], order, i + 1)

\* A first loop that does not forget the target.
RECURSIVE DamageLoopKeepsTarget(_, _, _)
DamageLoopKeepsTarget(robots, order, i) ==
    IF i > Len(order) THEN robots
    ELSE LET name == order[i]
             moved == [robots EXCEPT ![name].move_from = robots[name].move_to]
             target == moved[name].target
             hit == IF target \in DOMAIN moved
                    THEN [moved EXCEPT ![target].hp = @ - moved[name].damage]
                    ELSE moved
         IN DamageLoopKeepsTarget(hit, order, i + 1)

\* update_world, first loop: move, apply the damage, forget the target.
RECURSIVE DamageLoop(_, _, _)
DamageLoop(robots, order, i) ==
    IF i > Len(order) THEN robots
    ELSE LET name == order[i]
             moved == [robots EXCEPT ![name].move_from = robots[name].move_to]
             target == moved[name].target
             hit == IF target \in DOMAIN moved
                    THEN [moved EXCEPT ![target].hp = @ - moved[name].damage]
                    ELSE moved
         IN DamageLoop([hit EXCEPT ![name].target = None], order, i + 1)

\* A prune that keeps a robot with exactly no hit points.
PruneBelowZero(w) ==
    LET dead == {name \in DOMAIN w.robots : w.robots[name].hp < 0} IN
    [arena |-> w.arena,
     robots |-> [name \in DOMAIN w.robots \ dead |-> w.robots[name]],
     wrecks |-> [name \in DOMAIN w.wrecks \cup dead |->
                    IF name \in dead THEN w.robots[name] ELSE w.wrecks[name]]]

\* A prune that copies the dead robots to the wrecks without popping them.
PruneCopies(w) ==
    LET dead == {name \in DOMAIN w.robots : w.robots[name].hp <= 0} IN
    [arena |-> w.arena,
     robots |-> w.robots,
     wrecks |-> [name \in DOMAIN w.wrecks \cup dead |->
                    IF name \in dead THEN w.robots[name] ELSE w.wrecks[name]]]

\* update_world, second loop: robots without hit points become wrecks.
Prune(w) ==
    LET dead == {name \in DOMAIN w.robots : w.robots[name].hp <= 0} IN
    [arena |-> w.arena,
     robots |-> [name \in DOMAIN w.robots \ dead |-> w.robots[name]],
     wrecks |-> [name \in DOMAIN w.wrecks \cup dead |->
                    IF name \in dead THEN w.robots[name] ELSE w.wrecks[name]]]

\* update_world, third loop: take over the actions, in the dict's order.
\* world['robots'][name] raises KeyError for a name without a robot.
RECURSIVE AbsorbLoop(_, _, _, _)
AbsorbLoop(robots, acts, order, i) ==
    IF i > Len(order) THEN [robots |-> robots, raised |-> FALSE]
    ELSE LET name == order[i] IN
         IF name \notin DOMAIN robots THEN [robots |-> robots, raised |-> TRUE]
         ELSE AbsorbLoop(
                [robots EXCEPT
                    ![name].move_to = DictGet(acts[name], "move_to", robots[name].move_from),
                    ![name].target = DictGet(acts[name], "target", None)],
                acts, order, i + 1)

\* update_world(world, actions) for one iteration order of each dict:
\* the world it leaves and whether it raised.
UpdateWorld(w, acts, rorder, aorder) ==
    LET damaged == [w EXCEPT !.robots = DamageLoop(w.robots, rorder, 1)]
        pruned == Prune(damaged)
        absorbed == AbsorbLoop(pruned.robots, acts, aorder, 1)
    IN [world |-> [pruned EXCEPT !.robots = absorbed.robots],
        raised |-> absorbed.raised]

update_world(w, acts) ==
    {UpdateWorld(w, acts, rorder, aorder) :
        rorder \in Orders(DOMAIN w.robots), aorder \in Orders(DOMAIN acts)}

----------------------------------------------------------------------------
\* The phase machine.

Init ==
    /\ phase = "registration"
    /\ players = EmptyDict
    /\ elapsed = 0
    /\ hasWorld = FALSE
    /\ turn = 0
    /\ actions = EmptyDict
    /\ world = NoWorld
    /\ pc = "tick"
    /\ fault = "none"
    /\ sent = NoMessage

\* _begin_results
BeginResults(w, t) ==
    /\ phase' = "results"
    /\ elapsed' = 0
    /\ sent' = SendAll(players, "results", w, t)

\* _tick_game on the world w, the actions acts and the turn t, el seconds
\* after the turn began.
TickGameBody(w, acts, t, el) ==
    IF el < TurnTime
    THEN /\ phase' = "game"
         /\ elapsed' = el
         /\ world' = w
         /\ actions' = acts
         /\ turn' = t
         /\ sent' = NoMessage
         /\ fault' = fault
    ELSE \E out \in update_world(w, acts) :
            /\ world' = out.world
            /\ IF out.raised
               THEN /\ fault' = "KeyError"
                    /\ phase' = "game"
                    /\ elapsed' = el
                    /\ actions' = acts
                    /\ turn' = t
                    /\ sent' = NoMessage
               ELSE /\ fault' = fault
                    /\ actions' = EmptyDict
                    /\ IF Cardinality(DOMAIN out.world.robots) <= 1
                       THEN /\ turn' = t
                            /\ BeginResults(out.world, t)
                       ELSE /\ turn' = t + 1
                            /\ phase' = "game"
                            /\ elapsed' = 0
                            /\ sent' = SendAll(players, "sitrep", out.world, t + 1)

\* A _begin_game that keeps the pending actions.
BeginGameKeepsActions ==
    IF Cardinality(active_players) > Len(starts)
    THEN /\ fault' = "ValueError"
         /\ phase' = "game"
         /\ elapsed' = Horizon
         /\ turn' = 0
         /\ actions' = actions
         /\ sent' = NoMessage
         /\ UNCHANGED <<hasWorld, world>>
    ELSE /\ hasWorld' = TRUE
         /\ \E w \in generate_world(active_players) :
                TickGameBody(w, actions, 0, Horizon)

\* _begin_game: random.sample raises ValueError without enough starts.
BeginGame ==
    IF Cardinality(active_players) > Len(starts)
    THEN /\ fault' = "ValueError"
         /\ phase' = "game"
         /\ elapsed' = Horizon
         /\ turn' = 0
         /\ actions' = EmptyDict
         /\ sent' = NoMessage
         /\ UNCHANGED <<hasWorld, world>>
    ELSE /\ hasWorld' = TRUE
         /\ \E w \in generate_world(active_players) :
                TickGameBody(w, EmptyDict, 0, Horizon)

\* A register tick starts the game at once, whoever has registered.
GameCanStartAtOnce == Cardinality(active_players) >= MinPlayers

\* A register tick starts the game when the lobby time is over, whoever
\* has registered.
GameCanStartOnTimeout == elapsed >= RegistrationWait

\* The condition of _tick_registration
GameCanStart ==
    elapsed >= RegistrationWait /\ Cardinality(active_players) >= MinPlayers

\* _tick_registration
TickRegistration ==
    /\ pc = "tick" /\ fault = "none"
    /\ phase = "registration"
    /\ pc' = "receive"
    /\ IF GameCanStart
       THEN /\ BeginGame
            /\ UNCHANGED players
       ELSE /\ sent' = NoMessage
            /\ UNCHANGED server

\* _tick_game
TickGame ==
    /\ pc = "tick" /\ fault = "none"
    /\ phase = "game"
    /\ elapsed >= TurnTime => turn < MaxTurn
    /\ pc' = "receive"
    /\ TickGameBody(world, actions, turn, elapsed)
    /\ UNCHANGED <<players, hasWorld>>

\* A results tick that does not wait.
TickResultsAtOnce ==
    /\ pc = "tick" /\ fault = "none"
    /\ phase = "results"
    /\ pc' = "receive"
    /\ sent' = SendAll(players, "end", NoWorld, 0)
    /\ players' = EmptyDict
    /\ phase' = "registration"
    /\ elapsed' = 0
    /\ UNCHANGED <<hasWorld, turn, actions, world, fault>>

\* _tick_results
TickResults ==
    /\ pc = "tick" /\ fault = "none"
    /\ phase = "results"
    /\ pc' = "receive"
    /\ IF elapsed < ResultsTime
       THEN /\ sent' = NoMessage
            /\ UNCHANGED server
       ELSE /\ sent' = SendAll(players, "end", NoWorld, 0)
            /\ players' = EmptyDict
            /\ phase' = "registration"
            /\ elapsed' = 0
            /\ UNCHANGED <<hasWorld, turn, actions, world, fault>>

----------------------------------------------------------------------------
\* The receive of one loop iteration and the message handlers.

\* The delays the code compares the clock with.
Delays == {0, TurnTime, ResultsTime, RegistrationWait}

\* _receive polls for up to 100 ms: the clock stays short of the next delay
\* (dt = 0) or reaches it (dt = 1).
Wait(dt) ==
    elapsed' = IF dt = 0 \/ elapsed = Horizon THEN elapsed
               ELSE CHOOSE d \in Delays : d > elapsed /\ \A e \in Delays : e > elapsed => d <= e

\* A receive that never returns without a message.
ReceiveBlocks ==
    /\ pc = "receive" /\ fault = "none"
    /\ FALSE
    /\ UNCHANGED vars

\* _receive returns (None, None): no message, or one that failed to decode;
\* or run discards the message (no dict, no type, no handler).
ReceiveNothing ==
    /\ pc = "receive" /\ fault = "none"
    /\ pc' = "tick"
    /\ \E dt \in {0, 1} : Wait(dt)
    /\ sent' = NoMessage
    /\ UNCHANGED <<phase, players, hasWorld, turn, actions, world, fault>>

\* The nick each client sends: short, longer than NickMax, or none at all.
LongNick == [i \in 1..(NickMax + 1) |-> "x"]

HelloMessages(sender) ==
    LET nicked(m) == IF sender = "a" THEN m
                     ELSE [k \in DOMAIN m \cup {"nick"} |->
                            IF k = "nick"
                            THEN (IF sender = "b" THEN LongNick ELSE <<"n", "i", "c", "k">>)
                            ELSE m[k]]
    IN {nicked([type |-> "hello", want |-> w]) : w \in {"play", "spectate", "watch"}}
       \cup {nicked([type |-> "hello"])}

\* str(message.get('nick'))[:32]
Nick(message) ==
    LET s == IF "nick" \in DOMAIN message THEN message.nick ELSE <<"N", "o", "n", "e">>
    IN SubSeq(s, 1, Min(Len(s), NickMax))

\* self.active_players.get(sender, {}).get('want') != 'play'
NotPlayingYet(sender) ==
    LET active == [n \in active_players |-> players[n]]
    IN DictGet(DictGet(active, sender, EmptyDict), "want", None) # "play"

\* An intent that lets a latecomer play.
WillOfLatecomer(sender, message) ==
    LET asked == DictGet(message, "want", None)
        want == IF asked \notin {"play", "spectate"} THEN "play" ELSE asked
    IN IF phase = "registration" /\ NotPlayingYet(sender)
          /\ Cardinality(active_players) >= Len(starts)
       THEN "spectate"
       ELSE want

\* An intent without the capacity rule.
WillWithoutCapacity(sender, message) ==
    LET asked == DictGet(message, "want", None)
        want == IF asked \notin {"play", "spectate"} THEN "play" ELSE asked
    IN IF want = "play" /\ phase # "registration" THEN "spectate" ELSE want

\* The intent _on_hello stores for the sender.
Will(sender, message) ==
    LET asked == DictGet(message, "want", None)
        want == IF asked \notin {"play", "spectate"} THEN "play" ELSE asked
        late == IF want = "play" /\ phase # "registration" THEN "spectate" ELSE want
    IN IF phase = "registration" /\ NotPlayingYet(sender)
          /\ Cardinality(active_players) >= Len(starts)
       THEN "spectate"
       ELSE late

\* _on_hello
OnHello(sender, message) ==
    /\ pc = "receive" /\ fault = "none"
    /\ pc' = "tick"
    /\ Wait(0)
    /\ players' = DictPut(players, sender,
                          [nick |-> Nick(message), will |-> Will(sender, message)])
    /\ sent' = SendAll(players', "roster", NoWorld, 0)
    /\ UNCHANGED <<phase, hasWorld, turn, actions, world, fault>>

\* The robot each client's AI attacks.
Rival(sender) == IF sender = "a" THEN "b" ELSE "a"

\* The action messages a client may send: for the current turn without a
\* target, against its rival, against itself or with a destination; stale,
\* premature or without a turn.
ActionMessages(sender) ==
    LET now == [type |-> "action", turn |-> turn]
        With(m, key, value) == [k \in DOMAIN m \cup {key} |-> IF k = key THEN value ELSE m[k]]
    IN {now, With(now, "move_to", [x |-> 0, y |-> 0])}
       \cup {With(now, "target", t) : t \in {Rival(sender), sender}}
       \cup {With([type |-> "action", turn |-> t], "target", Rival(sender)) :
                t \in {turn - 1, turn + 1}}
       \cup {[type |-> "action", target |-> Rival(sender)]}

\* A target check that lets a robot aim at itself.
TargetAnyRobot(sender, message) ==
    IF "target" \in DOMAIN message /\ message.target \in DOMAIN world.robots
    THEN message.target
    ELSE None

\* The target _on_action stores for the sender.
Target(sender, message) ==
    IF /\ "target" \in DOMAIN message
       /\ message.target # sender
       /\ message.target \in DOMAIN world.robots
    THEN message.target
    ELSE None

\* An _on_action that stores the destination as well.
OnActionWithMove(sender, message) ==
    /\ pc = "receive" /\ fault = "none"
    /\ pc' = "tick"
    /\ Wait(0)
    /\ sent' = NoMessage
    /\ IF ~hasWorld
       THEN /\ fault' = "AttributeError"
            /\ UNCHANGED <<phase, players, hasWorld, turn, actions, world>>
       ELSE /\ actions' =
                IF /\ sender \in DOMAIN world.robots
                   /\ "turn" \in DOMAIN message
                   /\ message.turn = turn
                THEN DictPut(actions, sender,
                        IF "move_to" \in DOMAIN message
                        THEN [target |-> Target(sender, message), move_to |-> message.move_to]
                        ELSE [target |-> Target(sender, message)])
                ELSE actions
            /\ UNCHANGED <<phase, players, hasWorld, turn, world, fault>>

\* _on_action; self.world raises AttributeError before the first game.
OnAction(sender, message) ==
    /\ pc = "receive" /\ fault = "none"
    /\ pc' = "tick"
    /\ Wait(0)
    /\ sent' = NoMessage
    /\ IF ~hasWorld
       THEN /\ fault' = "AttributeError"
            /\ UNCHANGED <<phase, players, hasWorld, turn, actions, world>>
       ELSE /\ actions' =
                IF /\ sender \in DOMAIN world.robots
                   /\ "turn" \in DOMAIN message
                   /\ message.turn = turn
                THEN DictPut(actions, sender, [target |-> Target(sender, message)])
                ELSE actions
            /\ UNCHANGED <<phase, players, hasWorld, turn, world, fault>>

Hello == \E sender \in Identities : \E message \in HelloMessages(sender) :
            OnHello(sender, message)

Action == \E sender \in Identities : \E message \in ActionMessages(sender) :
            OnAction(sender, message)

Next ==
    \/ TickRegistration
    \/ TickGame
    \/ TickResults
    \/ ReceiveNothing
    \/ Hello
    \/ Action

Spec == Init /\ [][Next]_vars

\* The loop of run calls _tick in every iteration, and _receive returns
\* within 100 ms while the clock goes on: a tick that can run does run, and
\* the clock reaches the next delay in some receive without a message.
Tick == TickRegistration \/ TickGame \/ TickResults

TimePasses == ReceiveNothing /\ elapsed' # elapsed

\* The duel: two clients, whose messages may come at any time or never.
Pair == {"a", "b"}

HelloPair == \E sender \in Pair : \E message \in HelloMessages(sender) :
                OnHello(sender, message)

ActionPair == \E sender \in Pair : \E message \in ActionMessages(sender) :
                OnAction(sender, message)

NextLive ==
    \/ TickRegistration
    \/ TickGame
    \/ TickResults
    \/ ReceiveNothing
    \/ HelloPair
    \/ ActionPair

SpecLive == Init /\ [][NextLive]_vars /\ WF_vars(Tick) /\ SF_vars(TimePasses)

\* The crowded lobby: more clients than starting slots, who register and
\* watch but post no actions (their games never end).
HelloCrowd == \E sender \in Crowd : \E message \in HelloMessages(sender) :
                OnHello(sender, message)

NextCrowd ==
    \/ TickRegistration
    \/ TickGame
    \/ ReceiveNothing
    \/ HelloCrowd

SpecCrowd == Init /\ [][NextCrowd]_vars

----------------------------------------------------------------------------
\* Steps the properties speak about.

\* A game tick that is due: it calls update_world.
AdvanceDue == pc = "tick" /\ phase = "game" /\ elapsed >= 1

\* The register tick that begins a game.
GameBegins == phase = "registration" /\ phase' # "registration"

Robots == DOMAIN world.robots
Wrecks == DOMAIN world.wrecks

----------------------------------------------------------------------------
\* C1: every advance of the world completes without fault: the pending
\* actions of robots pruned in the same call are discarded, those of the
\* surviving robots are absorbed, and the tick broadcasts a sitrep or the
\* results.
C1_AdvanceCompletes ==
    [][AdvanceDue =>
        /\ fault' = "none"
        /\ sent'.type \in {"sitrep", "results"}
        /\ \A name \in DOMAIN actions \cap DOMAIN world'.robots :
                world'.robots[name].target = actions[name].target]_vars

\* C2: an action message from an identity without a robot changes nothing
\* and raises nothing, in every state of the server, also before the first
\* game.
C2_ActionWithoutRobotIgnored ==
    [][\A sender \in Identities : \A message \in ActionMessages(sender) :
        (OnAction(sender, message) /\ sender \notin Robots) => UNCHANGED server]_vars

\* C3: in the registration phase with as many active players as starting
\* slots, a hello of an identity that is no active player is stored with
\* will = spectate, and a hello asking to play of an identity that is an
\* active player keeps will = play.
C3_CapacityRule ==
    [][\A sender \in Crowd : \A message \in HelloMessages(sender) :
        (/\ OnHello(sender, message)
         /\ phase = "registration"
         /\ Cardinality(active_players) >= Len(starts))
        => players'[sender].will =
             (IF sender \in active_players /\ DictGet(message, "want", None) # "spectate"
              THEN "play" ELSE "spectate")]_vars

\* C4: a registration tick enters the game phase if and only if 10 s have
\* passed and at least 2 players are active; otherwise it changes nothing,
\* and no step leaves the registration phase with fewer than 2 active
\* players, however late it is.
C4_RegistrationTick ==
    /\ [][(pc = "tick" /\ phase = "registration") =>
            IF elapsed >= 10 /\ Cardinality(active_players) >= 2
            THEN phase' = "game"
            ELSE UNCHANGED server]_vars
    /\ [][(phase = "registration" /\ Cardinality(active_players) < 2) =>
            phase' = "registration"]_vars

\* A registration tick has just run 10 s into a lobby with one active
\* player, and the lobby is still open.
C4_Witness ==
    /\ phase = "registration" /\ pc = "receive" /\ sent.type = "none"
    /\ elapsed >= 10
    /\ Cardinality(active_players) = 1

\* C5: the phase is always one of registration, game and results; it
\* changes only from registration to game, from game to results and from
\* results to registration, and only in a tick, never in a message handler.
C5_PhaseCycle ==
    /\ [](phase \in {"registration", "game", "results"})
    /\ [][phase' # phase =>
            /\ pc = "tick"
            /\ <<phase, phase'>> \in {<<"registration", "game">>,
                                      <<"game", "results">>,
                                      <<"results", "registration">>}]_vars

\* The server is back in registration after a game and its results.
C5_Witness == phase = "registration" /\ hasWorld /\ Wrecks # {}

\* C6: an advance that leaves at most 1 robot broadcasts the results, with
\* the final world and the turn as it was, and enters the results phase;
\* the results phase is left only by a tick at least 3 s later that
\* broadcasts end to every registered identity and enters registration with
\* an empty registry.
C6_ResultsThenEnd ==
    [][/\ (AdvanceDue /\ Cardinality(DOMAIN world'.robots) <= 1) =>
            /\ phase' = "results"
            /\ sent' = [type |-> "results", to |-> DOMAIN players,
                        players |-> EmptyDict, world |-> world', turn |-> turn]
       /\ (phase = "results" /\ phase' # "results") =>
            /\ pc = "tick" /\ elapsed >= 3
            /\ sent'.type = "end" /\ sent'.to = DOMAIN players
            /\ phase' = "registration" /\ players' = EmptyDict]_vars

\* C7: every advance that leaves at least 2 robots broadcasts exactly one
\* sitrep, whose turn is the previous turn plus 1; the tick that enters the
\* game broadcasts the sitrep of turn 1 with one robot per active player.
C7_SitrepPerAdvance ==
    [][/\ (AdvanceDue /\ Cardinality(DOMAIN world'.robots) >= 2) =>
            /\ sent'.type = "sitrep" /\ sent'.turn = turn + 1 /\ turn' = turn + 1
            /\ sent'.world = world'
       /\ GameBegins =>
            /\ sent'.type = "sitrep" /\ sent'.turn = 1 /\ turn' = 1
            /\ DOMAIN sent'.world.robots = active_players
       /\ sent'.type = "sitrep" => (GameBegins \/ AdvanceDue)]_vars

\* C8: after every advance, the robots whose hit points were <= 0 after the
\* damage step are wrecks and no robots, the others remain robots; every
\* robot has hit points > 0; a wreck does not become a robot again in its
\* game, so it is pruned at most once.
C8_PrunedOnce ==
    /\ [](\A name \in Robots : world.robots[name].hp > 0)
    /\ [][AdvanceDue =>
            LET damaged == DamageLoop(world.robots, CHOOSE o \in Orders(Robots) : TRUE, 1)
            IN \A name \in Robots :
                IF damaged[name].hp <= 0
                THEN name \in DOMAIN world'.wrecks /\ name \notin DOMAIN world'.robots
                ELSE name \in DOMAIN world'.robots /\ name \notin DOMAIN world'.wrecks]_vars
    /\ [][~GameBegins => \A name \in Wrecks : name \notin DOMAIN world'.robots]_vars

\* A game goes on with two robots, one of them damaged, after a third was
\* pruned.
C8_Witness ==
    /\ phase = "game" /\ fault = "none"
    /\ Cardinality(Wrecks) = 1 /\ Cardinality(Robots) = 2
    /\ \E name \in Robots : world.robots[name].hp < StartHp

\* C9: robots and wrecks have no identity in common; at the start of a game
\* their union is the set of active players, and until the next game
\* begins the union stays the same and wrecks only grows: a wreck stays in
\* wrecks as it is.
C9_RobotsAndWrecks ==
    /\ [](Robots \cap Wrecks = {})
    /\ [][IF GameBegins
          THEN DOMAIN world'.robots \cup DOMAIN world'.wrecks = active_players
          ELSE /\ DOMAIN world'.robots \cup DOMAIN world'.wrecks = Robots \cup Wrecks
               /\ \A name \in Wrecks :
                    name \in DOMAIN world'.wrecks /\ world'.wrecks[name] = world.wrecks[name]]_vars

\* In a running game with a wreck, the active players are no longer the
\* owners of the robots and wrecks: an owner said hello again.
C9_Witness ==
    /\ phase = "game" /\ fault = "none" /\ Wrecks # {}
    /\ active_players # Robots \cup Wrecks

\* C10: no robot or wreck has itself as its target and no pending action
\* has its submitter as its target.
C10_NoSelfTarget ==
    /\ \A name \in Robots : world.robots[name].target # name
    /\ \A name \in Wrecks : world.wrecks[name].target # name
    /\ \A name \in DOMAIN actions : actions[name].target # name

\* A robot has a target while its owner's next action, with a target
\* again, is pending.
C10_Witness ==
    \E name \in Robots \cap DOMAIN actions :
        world.robots[name].target # None /\ actions[name].target # None

\* C11: an action message whose turn is not the server's current turn
\* (stale, premature or missing) changes nothing of the server.
C11_WrongTurnDropped ==
    [][\A sender \in Identities : \A message \in ActionMessages(sender) :
        (OnAction(sender, message) /\ DictGet(message, "turn", -1) # turn)
            => UNCHANGED server]_vars

\* C12: every hello handled outside the registration phase (the receive
\* step that broadcasts a roster) stores its sender with will = spectate,
\* whatever it asked for, and leaves every other record alone; no step
\* outside the registration phase adds an active player.
C12_LatecomersSpectate ==
    /\ [][(pc = "receive" /\ phase # "registration" /\ sent'.type = "roster") =>
            \E sender \in DOMAIN players' :
                /\ players'[sender].will = "spectate"
                /\ \A name \in DOMAIN players' \ {sender} :
                    name \in DOMAIN players /\ players'[name] = players[name]]_vars
    /\ [][phase # "registration" => ActivePlayers(players') \subseteq active_players]_vars

\* During a game the owner of a robot has said hello again and is a
\* spectator now.
C12_Witness ==
    /\ phase = "game" /\ sent.type = "roster"
    /\ \E name \in Robots : players[name].will = "spectate"

\* A point of the boundary grid: every 50 units along the four edges,
\* 25 units inside of each, the corner cells left out.
OnBoundaryGrid(p) ==
    \/ /\ p.y \in {25, ArenaHeight - 25}
       /\ p.x % 50 = 25 /\ 50 < p.x /\ p.x < ArenaWidth - 25
    \/ /\ p.x \in {25, ArenaWidth - 25}
       /\ p.y % 50 = 25 /\ 50 < p.y /\ p.y < ArenaHeight - 25

\* C13: the world a game begins with has one robot per active player, each
\* with the starting hit points (StartHp here, 100 in the source), damage
\* 10, no target and move_from = move_to on the boundary grid; no two
\* robots share a point and there are no wrecks.
C13_GeneratedWorld ==
    [][GameBegins =>
        LET robots == world'.robots IN
        /\ DOMAIN robots = active_players
        /\ world'.wrecks = EmptyDict
        /\ \A name \in DOMAIN robots :
            /\ robots[name].hp = StartHp
            /\ robots[name].damage = 10
            /\ robots[name].target = None
            /\ robots[name].move_from = robots[name].move_to
            /\ OnBoundaryGrid(robots[name].move_from)
        /\ \A one, other \in DOMAIN robots :
            one # other => robots[one].move_from # robots[other].move_from]_vars

\* A game of three robots has just begun.
C13_Witness ==
    /\ phase = "game" /\ turn = 1 /\ sent.type = "sitrep" /\ pc = "receive"
    /\ Cardinality(Robots) = 3

\* C14: there are never more active players than starting slots, and the
\* draw of the starting points never fails.
C14_ActiveWithinSlots ==
    /\ Cardinality(active_players) <= Len(starts)
    /\ fault # "ValueError"

\* Every slot is taken and a further identity is registered as spectator.
C14_Witness ==
    /\ phase = "registration"
    /\ Cardinality(active_players) = Len(starts)
    /\ Cardinality(DOMAIN players) > Len(starts)

\* The robots that aim at the robot name.
Attackers(name) == {other \in Robots : world.robots[other].target = name}

\* The record of the robot name after the step, robot or wreck.
After(name) ==
    IF name \in DOMAIN world'.robots THEN world'.robots[name] ELSE world'.wrecks[name]

\* C15: an advance takes from every robot 10 hit points for each robot
\* that aimed at it when the advance began, in whatever order the robots
\* are visited and whether or not the attacker itself is destroyed in the
\* same advance; afterwards each robot's move_from is its former move_to
\* and its target is null unless it had a pending action.
C15_DamageAtOnce ==
    [][AdvanceDue =>
        \A name \in Robots :
            /\ After(name).hp = world.robots[name].hp - 10 * Cardinality(Attackers(name))
            /\ After(name).move_from = world.robots[name].move_to
            /\ name \notin DOMAIN actions => After(name).target = None]_vars

\* Two robots have destroyed each other in one advance.
C15_Witness ==
    /\ phase = "results" /\ fault = "none"
    /\ \E one, other \in Wrecks :
        /\ one # other
        /\ world.wrecks[one].hp <= 0 /\ world.wrecks[other].hp <= 0
    /\ Cardinality(Robots) + Cardinality(Wrecks) = 2

C17_EarlyTicksIdle ==
    [][/\ (pc = "tick" /\ phase = "game" /\ elapsed < 1) =>
            (UNCHANGED server /\ sent' = NoMessage)
       /\ (pc = "tick" /\ phase = "results" /\ elapsed < 3) =>
            (UNCHANGED server /\ sent' = NoMessage)
       /\ (phase = "game" /\ (world' # world \/ turn' # turn \/ phase' # "game")) =>
            (pc = "tick" /\ elapsed >= 1)
       /\ (AdvanceDue /\ sent'.type = "sitrep") => elapsed' = 0
       /\ GameBegins => (turn' = 1 /\ sent'.type = "sitrep" /\ elapsed' = 0)]_vars

\* A results tick has run 1 second after the results began and has done
\* nothing.
C17_Witness ==
    /\ phase = "results" /\ pc = "receive" /\ elapsed = 1 /\ sent = NoMessage
    /\ fault = "none"

\* C18: while the loop runs and time passes, with or without messages,
\* the results phase is followed by registration, a registration with 2 or
\* more active players is followed by a game (unless a hello takes the
\* second player away), and every turn of a game (below the bound MaxTurn)
\* is followed by an advance and its broadcast; the loop has stopped once
\* an exception has ended run.
C18_TimersFire ==
    /\ (phase = "results") ~> (phase = "registration")
    /\ (phase = "registration" /\ Cardinality(active_players) >= 2)
        ~> (phase = "game" \/ Cardinality(active_players) < 2 \/ fault # "none")
    /\ (phase = "game" /\ turn < MaxTurn)
        ~> (sent.type \in {"sitrep", "results"} \/ fault # "none")

\* A duel has reached its second turn on the timers alone: no action has
\* been taken over and none is pending.
C18_Witness ==
    /\ phase = "game" /\ turn = 2 /\ actions = EmptyDict /\ fault = "none"
    /\ \A name \in Robots : world.robots[name].target = None /\ world.robots[name].hp = StartHp
    /\ Cardinality(Robots) = 2

\* The record of the robot or wreck name before the step.
Before(name) ==
    IF name \in Robots THEN world.robots[name] ELSE world.wrecks[name]

\* C19: robots never move. Every step that changes the world leaves each
\* robot and each wreck with move_from = move_to on the boundary grid and
\* no two of them on one point; within a game no step changes the
\* move_from or the move_to of a robot or wreck, whatever the action
\* messages carried.
C19_RobotsStayPut ==
    [][world' # world =>
        /\ \A name \in DOMAIN world'.robots \cup DOMAIN world'.wrecks :
            /\ After(name).move_from = After(name).move_to
            /\ OnBoundaryGrid(After(name).move_from)
            /\ \A other \in (DOMAIN world'.robots \cup DOMAIN world'.wrecks) \ {name} :
                After(other).move_from # After(name).move_from
        /\ ~GameBegins =>
            \A name \in Robots \cup Wrecks :
                /\ name \in DOMAIN world'.robots \cup DOMAIN world'.wrecks
                /\ After(name).move_from = Before(name).move_from
                /\ After(name).move_to = Before(name).move_to]_vars

\* Late in a game, with a wreck in the arena, actions are pending again.
C19_Witness ==
    /\ phase = "game" /\ turn >= 3 /\ fault = "none"
    /\ Wrecks # {} /\ actions # EmptyDict

\* C20: a game begins with its first advance done on no pending action:
\* the step that enters the game leaves the pending actions empty and
\* broadcasts the first sitrep, turn 1, in which every robot has the
\* starting hit points (StartHp here, 100 in the source) and no target,
\* whatever action was stored since the game before.
C20_GameBeginsClean ==
    [][GameBegins =>
        /\ actions' = EmptyDict
        /\ fault' = "none"
        /\ sent'.type = "sitrep" /\ sent'.turn = 1 /\ sent'.world = world'
        /\ \A name \in DOMAIN world'.robots :
            /\ world'.robots[name].hp = StartHp
            /\ world'.robots[name].target = None]_vars

\* A registration after a game is about to begin the next game while the
\* action of a survivor of the last one is still stored.
C20_Witness ==
    /\ phase = "registration" /\ pc = "tick" /\ hasWorld
    /\ actions # EmptyDict
    /\ elapsed >= 10 /\ Cardinality(active_players) >= 2

====
